---- MODULE Spec2Model ----
(***************************************************************************)
(* Measure numbering and the analyze call of beat_this_cpp.                *)
(*                                                                         *)
(* Times are integers in ticks of half a microsecond, so that the          *)
(* tolerance 1e-6 of the numbering pass is Eps = 2 ticks and two distinct  *)
(* float times can differ by less than the tolerance (1 tick).  Both       *)
(* numbering loops compare std::abs(beat - next_downbeat) against 1e-6     *)
(* (float literal in main.cpp, double literal in the C API); on this grid  *)
(* no difference falls between the two literals, so both are Eps.          *)
(***************************************************************************)
EXTENDS Integers, Sequences, FiniteSets, TLC

\* ---------------------------------------------------------------- bounds
MaxSlots == 5
MaxDownbeats == 3
SlotGap == 10
MaxDecodeSlots == 2
MaxSamples == 2
MaxCalls == 2
MaxAudioLen == 3
MaxChannels == 3
MaxFrames == 5
ChunkBound == 2
MaxPipeSamples == 6

\* ------------------------------------------------------- program constants
Eps == 2
target_samplerate == 22050
Sentinel == 0 - 1
TicksPerMs == 1000 * Eps

\* ----------------------------------------------------------------- inputs
Slots == 1..MaxSlots

\* offsets of a downbeat from its grid position: exact, off by less than
\* the tolerance, off by more than the tolerance
Jitter == {0, 1, Eps + 1}

RECURSIVE SortedSeq(_)
SortedSeq(S) ==
  IF S = {} THEN <<>>
  ELSE LET m == CHOOSE x \in S : \A y \in S : x <= y
       IN <<m>> \o SortedSeq(S \ {m})

Range(s) == {s[k] : k \in DOMAIN s}

\* strictly increasing beat times on the grid positions S: beats are times
\* of distinct frames (frame rate ~87 Hz, onnx/README.md), so two beats are
\* always much further apart than the tolerance
BeatLists(S) == {SortedSeq({k * SlotGap : k \in B}) : B \in SUBSET S}

\* strictly increasing downbeat times, each at or near a grid position of S
DownbeatLists(S) ==
  UNION {{SortedSeq({k * SlotGap + j[k] : k \in D}) : j \in [D -> Jitter]}
         : D \in {X \in SUBSET S : Cardinality(X) <= MaxDownbeats}}

\* reference data of the README, in ticks
ScenarioABeats ==
  <<340 * TicksPerMs, 681 * TicksPerMs, 1023 * TicksPerMs,
    1364 * TicksPerMs, 1705 * TicksPerMs, 2047 * TicksPerMs>>
ScenarioADownbeats == <<681 * TicksPerMs, 2047 * TicksPerMs>>

Inputs ==
  {[b |-> bs, d |-> ds] : bs \in BeatLists(Slots), ds \in DownbeatLists(Slots)}
    \cup {[b |-> ScenarioABeats, d |-> ScenarioADownbeats]}

\* what postprocessor.process can hand to the numbering: the Postprocessor
\* is not part of these sources, so its pair of lists is any pair of
\* ascending lists
DecodeOutputs ==
  {[b |-> bs, d |-> ds] : bs \in BeatLists(1..MaxDecodeSlots),
                          ds \in DownbeatLists(1..MaxDecodeSlots)}

\* arguments of process_audio
Rates == {0, target_samplerate, 2 * target_samplerate}
ChannelCounts == {0 - 1, 0, 1, 2}

VARIABLES
  beats, downbeats,      \* arguments of the numbering
  pc,                    \* position in the running function
  call,                  \* which call of the harness is running
  beat_counts,           \* calculate_beat_counts: the vector being filled
  start_counter, counter, downbeat_idx, next_downbeat, i,
  cerr,                  \* lines written to std::cerr
  ret1, ret2,            \* values returned by the two calculate_beat_counts calls
  file,                  \* contents of the file at output_filepath
  saved,                 \* return value of BeatThis_save_beats_to_file
  samplerate, channels, num_samples,   \* arguments of process_audio
  mono_len, resampled_len,             \* sizes of mono_audio, resampled_buffer
  outcome,               \* how the process_audio call ended
  result,                \* the BeatResult handed to the caller
  soxr_error,            \* error reported by soxr_create / soxr_process
  context,               \* the void* that BeatThis_init handed to the client
  heap,                  \* float arrays made with new[]: "live" or "freed"
  c_result,              \* the BeatThisResult handed to the client
  audio_data,            \* interleaved input samples
  mono_audio,            \* what convert_to_mono returned
  c_mono_audio,          \* mono_audio of BeatThis_process_audio
  features,              \* the feature matrix, one value per frame
  pending,               \* chunk indices whose scoring call is in flight
  done_order,            \* chunk indices in the order their calls finished
  chunk_out,             \* the scorer's output per chunk index
  beat_logits,           \* stitched beat logits
  downbeat_logits,       \* stitched downbeat logits
  options,               \* output options given on the command line
  outputs_done,          \* outputs that main has produced
  exit_status,           \* what main returned, Sentinel while it runs
  ctx_mem,               \* storage of the BeatThisContext made by BeatThis_init
  session,               \* the Ort::Session owned by the context or Impl
  read_back,             \* what read_beats_file returned
  resampled_buffer,      \* resampled_buffer of BeatThis::process_audio
  c_resampled_buffer,    \* resampled_buffer of BeatThis_process_audio
  soxr_calls,            \* number of calls of the resampler
  soxr_delay             \* output samples the resampler's filter holds back

\* state of the other entry points and stages; the numbering and
\* BeatThis::process_audio leave it alone
capiVars == <<context, heap, c_result>>
monoVars == <<audio_data, mono_audio, c_mono_audio>>
infVars == <<features, pending, done_order, chunk_out, beat_logits,
             downbeat_logits>>
cliVars == <<options, outputs_done, exit_status>>
ownVars == <<ctx_mem, session>>
lateVars == <<read_back, resampled_buffer, c_resampled_buffer, soxr_calls,
              soxr_delay>>
extVars == <<capiVars, monoVars, infVars, cliVars, ownVars, lateVars>>

\* BeatThisResult result = {nullptr, 0, nullptr, 0}; pointer 0 is nullptr,
\* any other pointer is an index into heap
EmptyCResult == [beats |-> 0, num_beats |-> 0, downbeats |-> 0,
                 num_downbeats |-> 0]

NotRead == [done |-> FALSE, records |-> <<>>]

LateIdle ==
  /\ read_back = NotRead
  /\ resampled_buffer = <<>>
  /\ c_resampled_buffer = <<>>
  /\ soxr_calls = 0
  /\ soxr_delay = 0

OwnIdle ==
  /\ ctx_mem = "none"
  /\ session = "none"

CApiIdle ==
  /\ context = "null"
  /\ heap = <<>>
  /\ c_result = EmptyCResult

MonoIdle ==
  /\ audio_data = <<>>
  /\ mono_audio = <<>>
  /\ c_mono_audio = <<>>

InfIdle ==
  /\ features = <<>>
  /\ pending = {}
  /\ done_order = <<>>
  /\ chunk_out = <<>>
  /\ beat_logits = <<>>
  /\ downbeat_logits = <<>>

CliIdle ==
  /\ options = {}
  /\ outputs_done = {}
  /\ exit_status = Sentinel

ExtInit ==
  /\ LateIdle /\ OwnIdle /\ CApiIdle
  /\ MonoIdle
  /\ InfIdle
  /\ CliIdle

paVars == <<samplerate, channels, num_samples, mono_len, resampled_len,
            outcome, result>>
ioVars == <<ret1, ret2, file, saved>>
locals == <<start_counter, counter, downbeat_idx, next_downbeat, i>>

vars == <<beats, downbeats, pc, call, beat_counts, start_counter, counter,
          downbeat_idx, next_downbeat, i, cerr, ret1, ret2, file, saved,
          samplerate, channels, num_samples, mono_len, resampled_len,
          outcome, result, soxr_error, extVars>>

\* the file at output_filepath: absent, or holding what an earlier run left
NoFile == [exists |-> FALSE, old |-> FALSE, lines |-> <<>>]
OldFile == [exists |-> TRUE, old |-> TRUE, lines |-> <<>>]
EmptyFile == [exists |-> TRUE, old |-> FALSE, lines |-> <<>>]

NoResult == [present |-> FALSE, beats |-> <<>>, downbeats |-> <<>>,
             beat_counts |-> <<>>]

\* ---------------------------------------------------------------- helpers
Abs(x) == IF x < 0 THEN 0 - x ELSE x

Zeros(n) == [k \in 1..n |-> 0]

\* std::lower_bound(first, first + count, v) - beats.begin(), 0-based
RECURSIVE LowerBoundFrom(_, _, _, _)
LowerBoundFrom(s, first, count, v) ==
  IF count <= 0 THEN first
  ELSE LET step == count \div 2
           mid == first + step
       IN IF s[mid + 1] < v
          THEN LowerBoundFrom(s, mid + 1, count - (step + 1), v)
          ELSE LowerBoundFrom(s, first, step, v)

lower_bound(s, v) == LowerBoundFrom(s, 0, Len(s), v)

\* the check with the two lists in each other's place
NotAllBeatsAreDownbeats(bs, ds) ==
  \E k \in DOMAIN bs : bs[k] \notin Range(ds)

\* std::set<float> beats_set; beats_set.find(db_time) == beats_set.end()
NotAllDownbeatsAreBeats(bs, ds) ==
  \E k \in DOMAIN ds : ds[k] \notin Range(bs)

\* PickupStart with the pickup beats not subtracted from the first measure
PickupStartNoPickup(bs, ds) ==
  IF Len(ds) >= 2
  THEN LET first_downbeat_idx == lower_bound(bs, ds[1])
           second_downbeat_idx == lower_bound(bs, ds[2])
           beats_in_first_measure == second_downbeat_idx - first_downbeat_idx
           pickup_beats == first_downbeat_idx
       IN IF pickup_beats < beats_in_first_measure
          THEN [start |-> beats_in_first_measure, warn |-> <<>>]
          ELSE [start |-> 1, warn |-> <<"WarnPickupLonger">>]
  ELSE [start |-> 1, warn |-> <<"WarnLessThanTwoDownbeats">>]

\* PickupStart taking "will start from 2" as the start counter
PickupStartFromTwo(bs, ds) ==
  IF Len(ds) >= 2
  THEN LET first_downbeat_idx == lower_bound(bs, ds[1])
           second_downbeat_idx == lower_bound(bs, ds[2])
           beats_in_first_measure == second_downbeat_idx - first_downbeat_idx
           pickup_beats == first_downbeat_idx
       IN IF pickup_beats < beats_in_first_measure
          THEN [start |-> beats_in_first_measure - pickup_beats, warn |-> <<>>]
          ELSE [start |-> 1, warn |-> <<"WarnPickupLonger">>]
  ELSE [start |-> 2, warn |-> <<"WarnLessThanTwoDownbeats">>]

\* PickupStart estimating the pickup length from the first measure
PickupStartEstimate(bs, ds) ==
  IF Len(ds) >= 2
  THEN LET first_downbeat_idx == lower_bound(bs, ds[1])
           second_downbeat_idx == lower_bound(bs, ds[2])
           beats_in_first_measure == second_downbeat_idx - first_downbeat_idx
           pickup_beats == first_downbeat_idx
       IN IF pickup_beats < beats_in_first_measure
          THEN [start |-> beats_in_first_measure - pickup_beats, warn |-> <<>>]
          ELSE [start |-> beats_in_first_measure, warn |-> <<"WarnPickupLonger">>]
  ELSE [start |-> 1, warn |-> <<"WarnLessThanTwoDownbeats">>]

\* lines 631-653: the start counter and the warning it prints, if any
PickupStart(bs, ds) ==
  IF Len(ds) >= 2
  THEN LET first_downbeat_idx == lower_bound(bs, ds[1])
           second_downbeat_idx == lower_bound(bs, ds[2])
           beats_in_first_measure == second_downbeat_idx - first_downbeat_idx
           pickup_beats == first_downbeat_idx
       IN IF pickup_beats < beats_in_first_measure
          THEN [start |-> beats_in_first_measure - pickup_beats, warn |-> <<>>]
          ELSE [start |-> 1, warn |-> <<"WarnPickupLonger">>]
  ELSE [start |-> 1, warn |-> <<"WarnLessThanTwoDownbeats">>]

\* next_downbeat read again from the downbeat just matched
NextDownbeatStale(ds, idx) ==
  IF idx = 0 THEN (IF 0 < Len(ds) THEN ds[1] ELSE Sentinel)
  ELSE IF idx <= Len(ds) THEN ds[idx] ELSE Sentinel

NextDownbeat(ds, idx) == IF idx < Len(ds) THEN ds[idx + 1] ELSE Sentinel

\* the matching test of the numbering pass
IsNextDownbeat(ds, idx, nd, beat_time) ==
  idx < Len(ds) /\ Abs(beat_time - nd) < Eps

\* std::fixed << std::setprecision(3): the time in milliseconds, rounded to
\* nearest with ties to even
Fixed3(t) ==
  LET q == t \div TicksPerMs
      r == t % TicksPerMs
  IN IF 2 * r < TicksPerMs THEN q
     ELSE IF 2 * r > TicksPerMs THEN q + 1
     ELSE IF q % 2 = 0 THEN q ELSE q + 1

\* ------------------------------------------------------------------- Init
Init ==
  /\ \E in \in Inputs : beats = in.b /\ downbeats = in.d
  /\ pc = "calc_entry"
  /\ call = 1
  /\ beat_counts = <<>>
  /\ start_counter = 0 /\ counter = 0 /\ downbeat_idx = 0
  /\ next_downbeat = 0 /\ i = 0
  /\ cerr = <<>>
  /\ ret1 = <<>> /\ ret2 = <<>>
  /\ file \in {NoFile, OldFile}
  /\ saved = "pending"
  /\ samplerate = target_samplerate /\ channels = 1 /\ num_samples = 0
  /\ mono_len = 0 /\ resampled_len = 0
  /\ outcome = "idle" /\ result = NoResult
  /\ soxr_error = "none"
  /\ ExtInit

\* ------------------------------------------------- calculate_beat_counts
\* CalcEntry handing back an empty vector on the early return
CalcEntryEmptyEarly ==
  /\ pc = "calc_entry"
  /\ beat_counts' = IF beats = <<>> \/ downbeats = <<>>
                    THEN <<>> ELSE Zeros(Len(beats))
  /\ pc' = IF beats = <<>> \/ downbeats = <<>> THEN "calc_return" ELSE "calc_check"
  /\ UNCHANGED <<extVars, soxr_error, beats, downbeats, call, locals, cerr, ioVars, paVars>>

\* std::vector<int> beat_counts(beats.size()); lines 615-619
CalcEntry ==
  /\ pc = "calc_entry"
  /\ beat_counts' = Zeros(Len(beats))
  /\ pc' = IF beats = <<>> \/ downbeats = <<>> THEN "calc_return" ELSE "calc_check"
  /\ UNCHANGED <<extVars, soxr_error, beats, downbeats, call, locals, cerr, ioVars, paVars>>

CalcCheck ==
  /\ pc = "calc_check"
  /\ IF NotAllDownbeatsAreBeats(beats, downbeats)
     THEN /\ cerr' = Append(cerr, "ErrCannotCalculate")
          /\ pc' = "calc_return"
     ELSE /\ cerr' = cerr
          /\ pc' = "calc_pickup"
  /\ UNCHANGED <<extVars, soxr_error, beats, downbeats, call, beat_counts, locals, ioVars, paVars>>

\* CalcPickup with the counter kept across calls (static int counter)
CalcPickupStaticCounter ==
  /\ pc = "calc_pickup"
  /\ LET p == PickupStart(beats, downbeats)
     IN /\ start_counter' = p.start
        /\ counter' = IF counter = 0 THEN p.start ELSE counter
        /\ cerr' = cerr \o p.warn
  /\ downbeat_idx' = 0
  /\ next_downbeat' = NextDownbeat(downbeats, 0)
  /\ i' = 0
  /\ pc' = "calc_loop"
  /\ UNCHANGED <<extVars, soxr_error, beats, downbeats, call, beat_counts, ioVars, paVars>>

CalcPickup ==
  /\ pc = "calc_pickup"
  /\ LET p == PickupStart(beats, downbeats)
     IN /\ start_counter' = p.start
        /\ counter' = p.start
        /\ cerr' = cerr \o p.warn
  /\ downbeat_idx' = 0
  /\ next_downbeat' = NextDownbeat(downbeats, 0)
  /\ i' = 0
  /\ pc' = "calc_loop"
  /\ UNCHANGED <<extVars, soxr_error, beats, downbeats, call, beat_counts, ioVars, paVars>>

CalcLoop ==
  /\ pc = "calc_loop"
  /\ i < Len(beats)
  /\ IF IsNextDownbeat(downbeats, downbeat_idx, next_downbeat, beats[i + 1])
     THEN /\ counter' = 1
          /\ downbeat_idx' = downbeat_idx + 1
          /\ next_downbeat' = NextDownbeat(downbeats, downbeat_idx + 1)
     ELSE /\ counter' = counter + 1
          /\ UNCHANGED <<downbeat_idx, next_downbeat>>
  /\ beat_counts' = [beat_counts EXCEPT ![i + 1] = counter']
  /\ i' = i + 1
  /\ UNCHANGED <<extVars, soxr_error, beats, downbeats, pc, call, start_counter, cerr, ioVars,
                 paVars>>

CalcLoopExit ==
  /\ pc = "calc_loop"
  /\ i >= Len(beats)
  /\ pc' = "calc_return"
  /\ UNCHANGED <<extVars, soxr_error, beats, downbeats, call, beat_counts, locals, cerr, ioVars,
                 paVars>>

\* return beat_counts; the harness calls the function twice on the same
\* arguments and then hands them to the file-writing path
CalcReturn ==
  /\ pc = "calc_return"
  /\ call \in {1, 2}
  /\ IF call = 1
     THEN /\ ret1' = beat_counts /\ ret2' = ret2
          /\ call' = 2 /\ pc' = "calc_entry"
     ELSE /\ ret2' = beat_counts /\ ret1' = ret1
          /\ call' = 3 /\ pc' = "save_open"
  /\ UNCHANGED <<extVars, soxr_error, beats, downbeats, beat_counts, locals, cerr, file, saved,
                 paVars>>

\* ------------------------------------------- BeatThis_save_beats_to_file
\* std::ofstream outfile(output_filepath): opening for writing creates the
\* file or truncates it; the open can fail (unwritable path)
SaveOpen ==
  /\ pc = "save_open"
  /\ \E is_open \in BOOLEAN :
       IF is_open
       THEN /\ file' = EmptyFile
            /\ pc' = "save_check"
            /\ UNCHANGED <<cerr, saved>>
       ELSE /\ cerr' = Append(cerr, "ErrCouldNotOpen")
            /\ saved' = "false"
            /\ pc' = "done"
            /\ UNCHANGED file
  /\ UNCHANGED <<extVars, soxr_error, beats, downbeats, call, beat_counts, locals, ret1, ret2, paVars>>

SaveCheck ==
  /\ pc = "save_check"
  /\ IF NotAllDownbeatsAreBeats(beats, downbeats)
     THEN /\ cerr' = Append(cerr, "ErrCannotSave")
          /\ saved' = "false"
          /\ pc' = "done"
     ELSE /\ UNCHANGED <<cerr, saved>>
          /\ pc' = "save_pickup"
  /\ UNCHANGED <<extVars, soxr_error, beats, downbeats, call, beat_counts, locals, ret1, ret2, file,
                 paVars>>

SavePickup ==
  /\ pc = "save_pickup"
  /\ LET p == PickupStart(beats, downbeats)
     IN /\ start_counter' = p.start
        /\ counter' = p.start
        /\ cerr' = cerr \o p.warn
  /\ downbeat_idx' = 0
  /\ next_downbeat' = NextDownbeat(downbeats, 0)
  /\ i' = 0
  /\ pc' = "save_loop"
  /\ UNCHANGED <<extVars, soxr_error, beats, downbeats, call, beat_counts, ioVars, paVars>>

SaveLoop ==
  /\ pc = "save_loop"
  /\ i < Len(beats)
  /\ IF IsNextDownbeat(downbeats, downbeat_idx, next_downbeat, beats[i + 1])
     THEN /\ counter' = 1
          /\ downbeat_idx' = downbeat_idx + 1
          /\ next_downbeat' = NextDownbeat(downbeats, downbeat_idx + 1)
     ELSE /\ counter' = counter + 1
          /\ UNCHANGED <<downbeat_idx, next_downbeat>>
  /\ file' = [file EXCEPT !.lines = Append(@, <<Fixed3(beats[i + 1]), counter'>>)]
  /\ i' = i + 1
  /\ UNCHANGED <<extVars, soxr_error, beats, downbeats, pc, call, beat_counts, start_counter, cerr,
                 ret1, ret2, saved, paVars>>

SaveLoopExit ==
  /\ pc = "save_loop"
  /\ i >= Len(beats)
  /\ saved' = "true"
  /\ pc' = "done"
  /\ UNCHANGED <<extVars, soxr_error, beats, downbeats, call, beat_counts, locals, cerr, ret1, ret2,
                 file, paVars>>

Next ==
  \/ CalcEntry
  \/ CalcCheck
  \/ CalcPickup
  \/ CalcLoop
  \/ CalcLoopExit
  \/ CalcReturn
  \/ SaveOpen
  \/ SaveCheck
  \/ SavePickup
  \/ SaveLoop
  \/ SaveLoopExit

Spec == Init /\ [][Next]_vars

\* ---------------------------------------------------- BeatThis::process_audio
InitAnalyze ==
  /\ samplerate \in Rates /\ channels \in ChannelCounts
  /\ num_samples \in 0..MaxSamples
  /\ beats = <<>> /\ downbeats = <<>>
  /\ pc = "pa_mono"
  /\ call = 0
  /\ beat_counts = <<>>
  /\ start_counter = 0 /\ counter = 0 /\ downbeat_idx = 0
  /\ next_downbeat = 0 /\ i = 0
  /\ cerr = <<>>
  /\ ret1 = <<>> /\ ret2 = <<>>
  /\ file = NoFile
  /\ saved = "pending"
  /\ mono_len = 0 /\ resampled_len = 0
  /\ outcome = "running" /\ result = NoResult
  /\ soxr_error = "none"
  /\ ExtInit

\* convert_to_mono: audio_data.size() / channels is a size_t division; a
\* negative channel count converts to a huge divisor (quotient 0), and a
\* zero channel count divides by zero, which traps (SIGFPE) or yields 0
\* depending on the target
PaConvertToMono ==
  /\ pc = "pa_mono"
  /\ \/ /\ channels = 1
        /\ mono_len' = num_samples
        /\ pc' = "pa_resample"
        /\ UNCHANGED outcome
     \/ /\ channels > 1
        /\ mono_len' = num_samples \div channels
        /\ pc' = "pa_resample"
        /\ UNCHANGED outcome
     \/ /\ channels < 0
        /\ mono_len' = 0
        /\ pc' = "pa_resample"
        /\ UNCHANGED outcome
     \/ /\ channels = 0
        /\ \/ /\ mono_len' = 0
              /\ pc' = "pa_resample"
              /\ UNCHANGED outcome
           \/ /\ outcome' = "crashed"
              /\ pc' = "pa_done"
              /\ UNCHANGED mono_len
  /\ UNCHANGED <<extVars, soxr_error, beats, downbeats, call, beat_counts, locals, cerr, ioVars,
                 samplerate, channels, num_samples, resampled_len, result>>

\* PaResample going on with the buffer when resample_audio returned false
PaResampleIgnoreError ==
  /\ pc = "pa_resample"
  /\ \/ /\ samplerate = target_samplerate
        /\ resampled_len' = mono_len
        /\ UNCHANGED soxr_error
     \/ /\ samplerate # target_samplerate /\ samplerate > 0
        /\ \E odone \in 0..((mono_len * target_samplerate) \div samplerate) :
             resampled_len' = odone
        /\ UNCHANGED soxr_error
     \/ /\ samplerate # target_samplerate
        /\ soxr_error' \in {"soxr_create failed", "soxr_process failed"}
        /\ resampled_len' = 0
  /\ pc' = "pa_spectrogram"
  /\ UNCHANGED <<extVars, beats, downbeats, call, beat_counts, locals, cerr, ioVars,
                 samplerate, channels, num_samples, mono_len, result, outcome>>

\* resample_audio returns false when soxr_create or soxr_process fails, and
\* process_audio throws.  With a rate <= 0 the size in_len * out_rate /
\* in_rate is out of the range of size_t: either out_buffer.resize throws
\* std::length_error or the resampler rejects the rate in soxr_create; both
\* end in the catch clause.
PaResample ==
  /\ pc = "pa_resample"
  /\ \/ /\ samplerate = target_samplerate
        /\ resampled_len' = mono_len
        /\ pc' = "pa_spectrogram"
        /\ UNCHANGED <<outcome, soxr_error>>
     \/ /\ samplerate # target_samplerate /\ samplerate > 0
        /\ \E odone \in 0..((mono_len * target_samplerate) \div samplerate) :
             resampled_len' = odone
        /\ pc' = "pa_spectrogram"
        /\ UNCHANGED <<outcome, soxr_error>>
     \/ /\ samplerate # target_samplerate
        /\ soxr_error' \in IF samplerate > 0
                           THEN {"soxr_create failed", "soxr_process failed"}
                           ELSE {"soxr_create failed"}
        /\ outcome' = "threw Processing error: Failed to resample audio"
        /\ pc' = "pa_done"
        /\ UNCHANGED resampled_len
     \/ /\ samplerate <= 0
        /\ outcome' = "threw Processing error: length_error"
        /\ pc' = "pa_done"
        /\ UNCHANGED <<resampled_len, soxr_error>>
  /\ UNCHANGED <<extVars, beats, downbeats, call, beat_counts, locals, cerr, ioVars,
                 samplerate, channels, num_samples, mono_len, result>>

\* MelSpectrogram::compute on the resampled buffer
PaSpectrogram ==
  /\ pc = "pa_spectrogram"
  /\ pc' = "pa_inference"
  /\ UNCHANGED <<extVars, soxr_error, beats, downbeats, call, beat_counts, locals, cerr, ioVars,
                 paVars>>

\* InferenceProcessor::process_spectrogram returns the logits or throws
\* Ort::Exception, which process_audio rethrows as std::runtime_error
PaInference ==
  /\ pc = "pa_inference"
  /\ \/ /\ pc' = "pa_postprocess"
        /\ UNCHANGED outcome
     \/ /\ outcome' = "threw ONNX Runtime error"
        /\ pc' = "pa_done"
  /\ UNCHANGED <<extVars, soxr_error, beats, downbeats, call, beat_counts, locals, cerr, ioVars,
                 samplerate, channels, num_samples, mono_len, resampled_len,
                 result>>

\* Postprocessor::process yields the beat and downbeat times, which are
\* passed to calculate_beat_counts
PaPostprocess ==
  /\ pc = "pa_postprocess"
  /\ \E out \in DecodeOutputs : beats' = out.b /\ downbeats' = out.d
  /\ pc' = "calc_entry"
  /\ UNCHANGED <<extVars, soxr_error, call, beat_counts, locals, cerr, ioVars, paVars>>

\* return BeatResult{beats, downbeats, beat_counts}
PaReturn ==
  /\ pc = "calc_return"
  /\ call = 0
  /\ result' = [present |-> TRUE, beats |-> beats, downbeats |-> downbeats,
                beat_counts |-> beat_counts]
  /\ outcome' = "returned"
  /\ pc' = "pa_done"
  /\ UNCHANGED <<extVars, soxr_error, beats, downbeats, call, beat_counts, locals, cerr, ioVars,
                 samplerate, channels, num_samples, mono_len, resampled_len>>

NextAnalyze ==
  \/ PaConvertToMono
  \/ PaResample
  \/ PaSpectrogram
  \/ PaInference
  \/ PaPostprocess
  \/ CalcEntry
  \/ CalcCheck
  \/ CalcPickup
  \/ CalcLoop
  \/ CalcLoopExit
  \/ PaReturn

SpecAnalyze == InitAnalyze /\ [][NextAnalyze]_vars

\* ------------------------------------------------------------- the C API
\* a client following the README: BeatThis_init, then up to MaxCalls rounds
\* of BeatThis_process_audio and BeatThis_free_result, then BeatThis_cleanup
InitCApi ==
  /\ samplerate \in Rates /\ channels \in ChannelCounts
  /\ num_samples \in 0..MaxSamples
  /\ beats = <<>> /\ downbeats = <<>>
  /\ pc = "c_init"
  /\ call = 0
  /\ beat_counts = <<>>
  /\ start_counter = 0 /\ counter = 0 /\ downbeat_idx = 0
  /\ next_downbeat = 0 /\ i = 0
  /\ cerr = <<>>
  /\ ret1 = <<>> /\ ret2 = <<>>
  /\ file = NoFile
  /\ saved = "pending"
  /\ mono_len = 0 /\ resampled_len = 0
  /\ outcome = "idle" /\ result = NoResult
  /\ soxr_error = "none"
  /\ ExtInit

numVars == <<beat_counts, locals, ioVars, result>>
argVars == <<samplerate, channels, num_samples>>

\* the unique_ptr<Ort::Session> member going out of scope
Destroy(s) ==
  CASE s = "loaded" -> "released"
    [] s = "released" -> "released twice"
    [] OTHER -> s

\* BeatThis_init handing back nullptr with the context storage kept
BeatThis_init_KeepStorage ==
  /\ pc = "c_init"
  /\ \/ /\ context' = "live"
        /\ ctx_mem' = "allocated"
        /\ session' = "loaded"
        /\ UNCHANGED cerr
     \/ /\ context' = "null"
        /\ UNCHANGED <<ctx_mem, session>>
        /\ cerr' = Append(cerr, "ErrInitializing")
     \/ /\ context' = "null"
        /\ ctx_mem' = "allocated"
        /\ UNCHANGED session
        /\ cerr' = Append(cerr, "ErrInitializingOrt")
  /\ pc' = "c_client"
  /\ UNCHANGED <<lateVars, cliVars, infVars, monoVars, numVars, argVars, beats, downbeats,
                 call, mono_len, resampled_len, outcome, soxr_error, heap,
                 c_result>>

\* BeatThis_init: new BeatThisContext(path).  operator new may throw
\* std::bad_alloc before there is any storage; the constructor of Ort::Env
\* or of Ort::Session may throw Ort::Exception, and the new-expression then
\* gives the storage back.  Either exception is caught and reported, and
\* nullptr is returned.
BeatThis_init ==
  /\ pc = "c_init"
  /\ \/ /\ context' = "live"
        /\ ctx_mem' = "allocated"
        /\ session' = "loaded"
        /\ UNCHANGED cerr
     \/ /\ context' = "null"
        /\ UNCHANGED <<ctx_mem, session>>
        /\ cerr' = Append(cerr, "ErrInitializing")
     \/ /\ context' = "null"
        /\ ctx_mem' = "freed"
        /\ UNCHANGED session
        /\ cerr' = Append(cerr, "ErrInitializingOrt")
  /\ pc' = "c_client"
  /\ UNCHANGED <<lateVars, cliVars, infVars, monoVars, numVars, argVars, beats, downbeats, call, mono_len,
                 resampled_len, outcome, soxr_error, heap, c_result>>

\* BeatThis_process_audio, lines 107-113: the result starts empty and is
\* returned at once for a null context
CProcessEntry ==
  /\ pc = "c_client"
  /\ call < MaxCalls
  /\ call' = call + 1
  /\ c_result' = EmptyCResult
  /\ soxr_error' = "none"
  /\ mono_len' = 0 /\ resampled_len' = 0
  /\ IF context = "live"
     THEN /\ pc' = "c_mono"
          /\ outcome' = "running"
          /\ UNCHANGED cerr
     ELSE /\ pc' = "c_returned"
          /\ outcome' = "returned after error"
          /\ cerr' = Append(cerr, "ErrContextNull")
  /\ UNCHANGED <<lateVars, ownVars, cliVars, infVars, monoVars, numVars, argVars, beats, downbeats, context, heap>>

\* lines 116-126: two channels are averaged, any other channel count is
\* copied sample by sample
CConvertToMono ==
  /\ pc = "c_mono"
  /\ mono_len' = IF channels = 2 THEN num_samples \div 2 ELSE num_samples
  /\ pc' = "c_resample"
  /\ UNCHANGED <<numVars, argVars, beats, downbeats, call, cerr, resampled_len,
                 outcome, soxr_error, extVars>>

\* lines 128-137 and resample_audio_internal: a failed resampler returns
\* the empty result; std::length_error from resize is caught at line 164
CResample ==
  /\ pc = "c_resample"
  /\ \/ /\ samplerate = target_samplerate
        /\ resampled_len' = mono_len
        /\ pc' = "c_spectrogram"
        /\ UNCHANGED <<outcome, soxr_error, cerr>>
     \/ /\ samplerate # target_samplerate /\ samplerate > 0
        /\ \E odone \in 0..((mono_len * target_samplerate) \div samplerate) :
             resampled_len' = odone
        /\ pc' = "c_spectrogram"
        /\ UNCHANGED <<outcome, soxr_error, cerr>>
     \/ /\ samplerate # target_samplerate
        /\ soxr_error' \in IF samplerate > 0
                           THEN {"soxr_create failed", "soxr_process failed"}
                           ELSE {"soxr_create failed"}
        /\ cerr' = Append(cerr, soxr_error')
        /\ outcome' = "returned after error"
        /\ pc' = "c_returned"
        /\ UNCHANGED resampled_len
     \/ /\ samplerate <= 0
        /\ cerr' = Append(cerr, "ErrDuringProcessing")
        /\ outcome' = "returned after error"
        /\ pc' = "c_returned"
        /\ UNCHANGED <<resampled_len, soxr_error>>
  /\ UNCHANGED <<numVars, argVars, beats, downbeats, call, mono_len, extVars>>

\* lines 140-142
CSpectrogram ==
  /\ pc = "c_spectrogram"
  /\ pc' = "c_inference"
  /\ UNCHANGED <<numVars, argVars, beats, downbeats, call, cerr, mono_len,
                 resampled_len, outcome, soxr_error, extVars>>

\* lines 144-146, 162-163: Ort::Exception is caught and reported, the empty
\* result is returned
CInference ==
  /\ pc = "c_inference"
  /\ \/ /\ pc' = "c_postprocess"
        /\ UNCHANGED <<outcome, cerr>>
     \/ /\ cerr' = Append(cerr, "ErrOnnxRuntime")
        /\ outcome' = "returned after error"
        /\ pc' = "c_returned"
  /\ UNCHANGED <<numVars, argVars, beats, downbeats, call, mono_len,
                 resampled_len, soxr_error, extVars>>

\* lines 148-151
CPostprocess ==
  /\ pc = "c_postprocess"
  /\ \E out \in DecodeOutputs : beats' = out.b /\ downbeats' = out.d
  /\ pc' = "c_copy"
  /\ UNCHANGED <<numVars, argVars, call, cerr, mono_len, resampled_len,
                 outcome, soxr_error, extVars>>

\* lines 153-168: the counts are stored before each new[]; std::bad_alloc
\* from either new[] is caught at line 164 and the result is returned as
\* far as it was filled.  The vectors of times end with the call.
CCopyResults ==
  /\ pc = "c_copy"
  /\ \/ /\ heap' = heap \o <<"live", "live">>
        /\ c_result' = [beats |-> Len(heap) + 1, num_beats |-> Len(beats),
                        downbeats |-> Len(heap) + 2,
                        num_downbeats |-> Len(downbeats)]
        /\ outcome' = "returned"
        /\ UNCHANGED cerr
     \/ /\ heap' = heap
        /\ c_result' = [beats |-> 0, num_beats |-> Len(beats),
                        downbeats |-> 0, num_downbeats |-> 0]
        /\ outcome' = "returned after error"
        /\ cerr' = Append(cerr, "ErrDuringProcessing")
     \/ /\ heap' = Append(heap, "live")
        /\ c_result' = [beats |-> Len(heap) + 1, num_beats |-> Len(beats),
                        downbeats |-> 0, num_downbeats |-> Len(downbeats)]
        /\ outcome' = "returned after error"
        /\ cerr' = Append(cerr, "ErrDuringProcessing")
  /\ beats' = <<>> /\ downbeats' = <<>>
  /\ pc' = "c_returned"
  /\ UNCHANGED <<lateVars, ownVars, cliVars, infVars, monoVars, numVars, argVars, call, mono_len, resampled_len, soxr_error,
                 context>>

\* delete[] p: nothing for nullptr, releases a live array, and is an error
\* on an array that is not live
Delete(h, p) ==
  IF p = 0 THEN h
  ELSE [h EXCEPT ![p] = IF @ = "live" THEN "freed" ELSE "deleted twice"]

\* BeatThis_free_result releasing only the beats array
BeatThis_free_result_BeatsOnly ==
  /\ pc = "c_returned"
  /\ heap' = Delete(heap, c_result.beats)
  /\ pc' = "c_freed"
  /\ UNCHANGED <<lateVars, ownVars, cliVars, infVars, monoVars, numVars, argVars, beats, downbeats, call, cerr, mono_len,
                 resampled_len, outcome, soxr_error, context, c_result>>

\* BeatThis_free_result: delete[] result.beats; delete[] result.downbeats
BeatThis_free_result ==
  /\ pc = "c_returned"
  /\ heap' = Delete(Delete(heap, c_result.beats), c_result.downbeats)
  /\ pc' = "c_freed"
  /\ UNCHANGED <<lateVars, ownVars, cliVars, infVars, monoVars, numVars, argVars, beats, downbeats, call, cerr, mono_len,
                 resampled_len, outcome, soxr_error, context, c_result>>

\* the client goes on to the next round or to the clean-up
CNextRound ==
  /\ pc = "c_freed"
  /\ pc' = "c_client"
  /\ UNCHANGED <<numVars, argVars, beats, downbeats, call, cerr, mono_len,
                 resampled_len, outcome, soxr_error, extVars>>

\* BeatThis_cleanup: if (context) delete static_cast<BeatThisContext*>(context)
BeatThis_cleanup ==
  /\ pc = "c_client"
  /\ IF context = "live"
     THEN /\ context' = "deleted"
          /\ ctx_mem' = "freed"
          /\ session' = Destroy(session)
     ELSE UNCHANGED <<context, ctx_mem, session>>
  /\ pc' = "c_end"
  /\ UNCHANGED <<lateVars, cliVars, infVars, monoVars, numVars, argVars, beats, downbeats, call, cerr, mono_len,
                 resampled_len, outcome, soxr_error, heap, c_result>>

NextCApi ==
  \/ BeatThis_init
  \/ CProcessEntry
  \/ CConvertToMono
  \/ CResample
  \/ CSpectrogram
  \/ CInference
  \/ CPostprocess
  \/ CCopyResults
  \/ BeatThis_free_result
  \/ CNextRound
  \/ BeatThis_cleanup

SpecCApi == InitCApi /\ [][NextCApi]_vars

\* a run of the program enters through BeatThis::process_audio or through
\* the C API
SpecEntries == (InitAnalyze \/ InitCApi) /\ [][NextAnalyze \/ NextCApi]_vars

\* ------------------------------------------------------------ mono mixing
\* samples are small integers; a mixed sample is the fraction num / den, so
\* that no rounding hides a wrong divisor
Samples == {0 - 1, 0, 1}

AudioBuffers == UNION {[1..n -> Samples] : n \in 0..MaxAudioLen}

Whole(x) == [num |-> x, den |-> 1]

\* sum += audio_data[i * channels + ch], for the frame with 1-based index k
RECURSIVE FrameSum(_, _, _, _)
FrameSum(audio, k, ch, n) ==
  IF n = 0 THEN 0
  ELSE FrameSum(audio, k, ch, n - 1) + audio[(k - 1) * ch + n]

\* convert_to_mono for channels >= 1
convert_to_mono(audio, ch) ==
  IF ch = 1 THEN [k \in 1..Len(audio) |-> Whole(audio[k])]
  ELSE [k \in 1..(Len(audio) \div ch) |->
          [num |-> FrameSum(audio, k, ch, ch), den |-> ch]]

\* BeatThis_process_audio, step 1: only two channels are mixed
CMonoMix(audio, ch) ==
  IF ch = 2
  THEN [k \in 1..(Len(audio) \div 2) |->
          [num |-> audio[(k - 1) * 2 + 1] + audio[(k - 1) * 2 + 2], den |-> 2]]
  ELSE [k \in 1..Len(audio) |-> Whole(audio[k])]

InitMono ==
  /\ audio_data \in AudioBuffers
  /\ channels \in 1..MaxChannels
  /\ num_samples = Len(audio_data)
  /\ samplerate = target_samplerate
  /\ mono_audio = <<>> /\ c_mono_audio = <<>>
  /\ beats = <<>> /\ downbeats = <<>>
  /\ pc = "mix_cpp"
  /\ call = 0
  /\ beat_counts = <<>>
  /\ start_counter = 0 /\ counter = 0 /\ downbeat_idx = 0
  /\ next_downbeat = 0 /\ i = 0
  /\ cerr = <<>>
  /\ ret1 = <<>> /\ ret2 = <<>>
  /\ file = NoFile
  /\ saved = "pending"
  /\ mono_len = 0 /\ resampled_len = 0
  /\ outcome = "idle" /\ result = NoResult
  /\ soxr_error = "none"
  /\ LateIdle /\ OwnIdle /\ CApiIdle
  /\ InfIdle
  /\ CliIdle

\* process_audio line 733
MixCpp ==
  /\ pc = "mix_cpp"
  /\ mono_audio' = convert_to_mono(audio_data, channels)
  /\ pc' = "mix_c"
  /\ UNCHANGED <<lateVars, ownVars, cliVars, infVars, numVars, argVars, beats, downbeats, call, cerr, mono_len,
                 resampled_len, outcome, soxr_error, capiVars, audio_data,
                 c_mono_audio>>

\* BeatThis_process_audio lines 116-126 on the same buffer
MixC ==
  /\ pc = "mix_c"
  /\ c_mono_audio' = CMonoMix(audio_data, channels)
  /\ pc' = "mix_done"
  /\ UNCHANGED <<lateVars, ownVars, cliVars, infVars, numVars, argVars, beats, downbeats, call, cerr, mono_len,
                 resampled_len, outcome, soxr_error, capiVars, audio_data,
                 mono_audio>>

NextMono ==
  \/ MixCpp
  \/ MixC

SpecMono == InitMono /\ [][NextMono]_vars

\* --------------------------------------------------- inference orchestrator
\* a frame is one value standing for its 128 mel energies
FrameValues == {0, 1}

FeatureMatrices == UNION {[1..n -> FrameValues] : n \in 0..MaxFrames}

\* the trained model, an opaque pure function with one beat score and one
\* downbeat score per frame
BeatLogit(f) == 2 * f - 1
DownbeatLogit(f) == f - 2

F(chunk) ==
  [beat |-> [t \in 1..Len(chunk) |-> BeatLogit(chunk[t])],
   downbeat |-> [t \in 1..Len(chunk) |-> DownbeatLogit(chunk[t])]]

\* chunks are non-overlapping, at most ChunkBound frames each; the last one
\* takes the frames that are left
NumChunksDroppingRest(T) == T \div ChunkBound

NumChunks(T) == (T + ChunkBound - 1) \div ChunkBound

Chunk(feat, k) ==
  SubSeq(feat, (k - 1) * ChunkBound + 1,
         IF k * ChunkBound < Len(feat) THEN k * ChunkBound ELSE Len(feat))

NotScored == [beat |-> <<>>, downbeat |-> <<>>]

\* outputs joined in the given order of chunk indices
RECURSIVE Stitch(_, _, _)
Stitch(outs, order, n) ==
  IF n = 0 THEN NotScored
  ELSE LET rest == Stitch(outs, order, n - 1)
       IN [beat |-> rest.beat \o outs[order[n]].beat,
           downbeat |-> rest.downbeat \o outs[order[n]].downbeat]

ByChunkIndex(n) == [k \in 1..n |-> k]

InitInference ==
  /\ features \in FeatureMatrices
  /\ pending = {} /\ done_order = <<>> /\ chunk_out = <<>>
  /\ beat_logits = <<>> /\ downbeat_logits = <<>>
  /\ samplerate = target_samplerate /\ channels = 1 /\ num_samples = 0
  /\ beats = <<>> /\ downbeats = <<>>
  /\ pc = "inf_split"
  /\ call = 0
  /\ beat_counts = <<>>
  /\ start_counter = 0 /\ counter = 0 /\ downbeat_idx = 0
  /\ next_downbeat = 0 /\ i = 0
  /\ cerr = <<>>
  /\ ret1 = <<>> /\ ret2 = <<>>
  /\ file = NoFile
  /\ saved = "pending"
  /\ mono_len = 0 /\ resampled_len = 0
  /\ outcome = "running" /\ result = NoResult
  /\ soxr_error = "none"
  /\ LateIdle /\ OwnIdle /\ CApiIdle
  /\ MonoIdle
  /\ CliIdle

baseVars == <<numVars, argVars, beats, downbeats, call, cerr, mono_len,
              resampled_len, soxr_error>>

\* the matrix is split and one scoring call per chunk is started
InfSplit ==
  /\ pc = "inf_split"
  /\ pending' = 1..NumChunks(Len(features))
  /\ chunk_out' = [k \in 1..NumChunks(Len(features)) |-> NotScored]
  /\ pc' = "inf_scoring"
  /\ UNCHANGED <<lateVars, ownVars, cliVars, baseVars, outcome, capiVars, monoVars, features, done_order,
                 beat_logits, downbeat_logits>>

\* the call for any chunk still in flight finishes
InfChunkDone ==
  /\ pc = "inf_scoring"
  /\ \E k \in pending :
       /\ chunk_out' = [chunk_out EXCEPT ![k] = F(Chunk(features, k))]
       /\ pending' = pending \ {k}
       /\ done_order' = Append(done_order, k)
  /\ UNCHANGED <<lateVars, ownVars, cliVars, baseVars, outcome, capiVars, monoVars, features, pc,
                 beat_logits, downbeat_logits>>

\* the backend fails on a chunk: InferenceError, no logits
InfChunkFail ==
  /\ pc = "inf_scoring"
  /\ pending # {}
  /\ outcome' = "threw InferenceError"
  /\ pc' = "inf_failed"
  /\ UNCHANGED <<lateVars, ownVars, cliVars, baseVars, capiVars, monoVars, infVars>>

\* InfStitch joining the outputs in the order the calls finished
InfStitchByCompletion ==
  /\ pc = "inf_scoring"
  /\ pending = {}
  /\ beat_logits' = Stitch(chunk_out, done_order, Len(done_order)).beat
  /\ downbeat_logits' = Stitch(chunk_out, done_order, Len(done_order)).downbeat
  /\ outcome' = "returned"
  /\ pc' = "inf_done"
  /\ UNCHANGED <<lateVars, ownVars, cliVars, baseVars, capiVars, monoVars, features, pending, done_order,
                 chunk_out>>

\* all calls are back: the outputs are joined by chunk index
InfStitch ==
  /\ pc = "inf_scoring"
  /\ pending = {}
  /\ beat_logits' = Stitch(chunk_out, ByChunkIndex(Len(chunk_out)),
                           Len(chunk_out)).beat
  /\ downbeat_logits' = Stitch(chunk_out, ByChunkIndex(Len(chunk_out)),
                               Len(chunk_out)).downbeat
  /\ outcome' = "returned"
  /\ pc' = "inf_done"
  /\ UNCHANGED <<lateVars, ownVars, cliVars, baseVars, capiVars, monoVars, features, pending, done_order,
                 chunk_out>>

NextInference ==
  \/ InfSplit
  \/ InfChunkDone
  \/ InfChunkFail
  \/ InfStitch

SpecInference == InitInference /\ [][NextInference]_vars

\* ------------------------------------------------- spectrogram and decoder
\* frames of FftSize samples every HopSize samples, a shorter input padded
\* to one frame, no frame for no samples
FftSize == 2
HopSize == 1

FrameCountPadEmpty(n) ==
  IF n < FftSize THEN 1 ELSE (n - FftSize) \div HopSize + 1

FrameCount(n) ==
  IF n = 0 THEN 0
  ELSE IF n < FftSize THEN 1
  ELSE (n - FftSize) \div HopSize + 1

\* logits and their squashed probability in percent
BeatLogitValues == {0 - 1, 1, 2}
DownbeatLogitValues == {0 - 1, 1}

Squash(l) == CASE l = 0 - 1 -> 27 [] l = 1 -> 73 [] l = 2 -> 88 [] OTHER -> 50

Probs(logits) == [t \in DOMAIN logits |-> Squash(logits[t])]

Threshold == 50
Refractory == 2

\* a local maximum above the threshold; of equal neighbours the earliest
IsPeak(p, t) ==
  /\ p[t] > Threshold
  /\ t = 1 \/ p[t - 1] < p[t]
  /\ t = Len(p) \/ p[t + 1] <= p[t]

RECURSIVE PeakPickFrom(_, _, _)
PeakPickFrom(p, t, last) ==
  IF t > Len(p) THEN <<>>
  ELSE IF IsPeak(p, t) /\ (last = 0 \/ t - last >= Refractory)
       THEN <<t>> \o PeakPickFrom(p, t + 1, t)
       ELSE PeakPickFrom(p, t + 1, last)

\* the peaks listed from the last frame to the first
PeakPickLatestFirst(p) ==
  LET fwd == PeakPickFrom(p, 1, 0)
  IN [k \in 1..Len(fwd) |-> fwd[Len(fwd) + 1 - k]]

PeakPick(p) == PeakPickFrom(p, 1, 0)

\* frame index -> time in ticks
FrameTime(t) == (t - 1) * SlotGap

Times(frames) == [k \in DOMAIN frames |-> FrameTime(frames[k])]

Nearest(bs, c) ==
  CHOOSE b \in Range(bs) :
    \A b2 \in Range(bs) :
      Abs(b - c) < Abs(b2 - c) \/ (Abs(b - c) = Abs(b2 - c) /\ b <= b2)

\* each downbeat candidate becomes the nearest beat when that is within
\* Eps, and is dropped otherwise
RECURSIVE SnapToBeats(_, _, _)
SnapToBeats(bs, cands, k) ==
  IF k > Len(cands) THEN <<>>
  ELSE IF bs # <<>> /\ Abs(Nearest(bs, cands[k]) - cands[k]) <= Eps
       THEN <<Nearest(bs, cands[k])>> \o SnapToBeats(bs, cands, k + 1)
       ELSE SnapToBeats(bs, cands, k + 1)

Decode(bl, dl) ==
  LET bs == Times(PeakPick(Probs(bl)))
  IN [b |-> bs, d |-> SnapToBeats(bs, Times(PeakPick(Probs(dl))), 1)]

InitPipeline ==
  /\ samplerate \in Rates /\ channels \in ChannelCounts
  /\ num_samples \in 0..MaxPipeSamples
  /\ beats = <<>> /\ downbeats = <<>>
  /\ pc = "pa_mono"
  /\ call = 0
  /\ beat_counts = <<>>
  /\ start_counter = 0 /\ counter = 0 /\ downbeat_idx = 0
  /\ next_downbeat = 0 /\ i = 0
  /\ cerr = <<>>
  /\ ret1 = <<>> /\ ret2 = <<>>
  /\ file = NoFile
  /\ saved = "pending"
  /\ mono_len = 0 /\ resampled_len = 0
  /\ outcome = "running" /\ result = NoResult
  /\ soxr_error = "none"
  /\ ExtInit

\* MelSpectrogram::compute: one frame per hop, the content left open
PsSpectrogram ==
  /\ pc = "pa_spectrogram"
  /\ features' = [t \in 1..FrameCount(resampled_len) |-> 0]
  /\ pc' = "pa_inference"
  /\ UNCHANGED <<lateVars, ownVars, cliVars, baseVars, outcome, capiVars, monoVars, pending, done_order,
                 chunk_out, beat_logits, downbeat_logits>>

\* InferenceProcessor::process_spectrogram: any scores, one per frame, or
\* Ort::Exception
PsInference ==
  /\ pc = "pa_inference"
  /\ \/ /\ beat_logits' \in [1..Len(features) -> BeatLogitValues]
        /\ downbeat_logits' \in [1..Len(features) -> DownbeatLogitValues]
        /\ pc' = "pa_postprocess"
        /\ UNCHANGED outcome
     \/ /\ outcome' = "threw ONNX Runtime error"
        /\ pc' = "pa_done"
        /\ UNCHANGED <<beat_logits, downbeat_logits>>
  /\ UNCHANGED <<lateVars, ownVars, cliVars, baseVars, capiVars, monoVars, features, pending, done_order,
                 chunk_out>>

\* Postprocessor::process
PsDecode ==
  /\ pc = "pa_postprocess"
  /\ beats' = Decode(beat_logits, downbeat_logits).b
  /\ downbeats' = Decode(beat_logits, downbeat_logits).d
  /\ pc' = "calc_entry"
  /\ UNCHANGED <<numVars, argVars, call, cerr, mono_len, resampled_len,
                 soxr_error, outcome, extVars>>

NextPipeline ==
  \/ PaConvertToMono
  \/ PaResample
  \/ PsSpectrogram
  \/ PsInference
  \/ PsDecode
  \/ CalcEntry
  \/ CalcCheck
  \/ CalcPickup
  \/ CalcLoop
  \/ CalcLoopExit
  \/ PaReturn

SpecPipeline == InitPipeline /\ [][NextPipeline]_vars

\* ------------------------------------------------------------------ the CLI
OutputOptions == {"beats", "audio", "mixed"}

InitCli ==
  /\ options \in SUBSET OutputOptions
  /\ outputs_done = {}
  /\ exit_status = Sentinel
  /\ samplerate = target_samplerate /\ channels \in {1, 2}
  /\ num_samples \in 0..MaxSamples
  /\ beats = <<>> /\ downbeats = <<>>
  /\ pc = "cli_args"
  /\ call = 0
  /\ beat_counts = <<>>
  /\ start_counter = 0 /\ counter = 0 /\ downbeat_idx = 0
  /\ next_downbeat = 0 /\ i = 0
  /\ cerr = <<>>
  /\ ret1 = <<>> /\ ret2 = <<>>
  /\ file = NoFile
  /\ saved = "pending"
  /\ mono_len = 0 /\ resampled_len = 0
  /\ outcome = "idle" /\ result = NoResult
  /\ soxr_error = "none"
  /\ LateIdle /\ OwnIdle /\ CApiIdle /\ MonoIdle /\ InfIdle

cliRest == <<argVars, beats, downbeats, call, beat_counts, locals, ret1, ret2,
             saved, mono_len, resampled_len, result, soxr_error, capiVars,
             monoVars, infVars, options, ctx_mem, lateVars>>

\* main returning without the analyzer's destructor having run
ScopeEndKeepsSession == session' = session

\* when main returns, the analyzer (if constructed) goes out of scope:
\* ~BeatThis destroys pImpl and with it the session
ScopeEnd ==
  session' = IF exit_status' # Sentinel THEN Destroy(session) ELSE session

\* main, lines 266-271: at least one output must be asked for
CliCheckOptions ==
  /\ pc = "cli_args"
  /\ IF options = {}
     THEN /\ cerr' = Append(cerr, "ErrNoOutputOption")
          /\ exit_status' = 1
          /\ pc' = "cli_exit"
     ELSE /\ pc' = "cli_construct"
          /\ UNCHANGED <<cerr, exit_status>>
  /\ ScopeEnd
  /\ UNCHANGED <<cliRest, outcome, file, outputs_done>>

\* lines 275-277, 326-329: BeatThis::BeatThis makes the Impl with its
\* session; an exception from it is caught by main, and make_unique leaves
\* nothing behind
CliConstruct ==
  /\ pc = "cli_construct"
  /\ \/ /\ session' = "loaded"
        /\ pc' = "cli_load"
        /\ UNCHANGED <<cerr, exit_status>>
     \/ /\ cerr' = Append(cerr, "ErrException")
        /\ exit_status' = 1
        /\ pc' = "cli_exit"
        /\ UNCHANGED session
  /\ UNCHANGED <<cliRest, outcome, file, outputs_done>>

\* lines 279-284: the audio file is loaded, or main returns 1
CliLoad ==
  /\ pc = "cli_load"
  /\ \/ /\ outcome' = "running"
        /\ pc' = "pa_mono"
        /\ UNCHANGED <<cerr, exit_status>>
     \/ /\ cerr' = Append(cerr, "ErrCouldNotOpenAudio")
        /\ exit_status' = 1
        /\ pc' = "cli_exit"
        /\ UNCHANGED outcome
  /\ ScopeEnd
  /\ UNCHANGED <<cliRest, file, outputs_done>>

\* lines 288-290, 326-329: the result arrives, or the exception of
\* process_audio is caught
CliResult ==
  /\ pc = "pa_done"
  /\ exit_status = Sentinel
  /\ IF outcome = "returned"
     THEN /\ pc' = "cli_beats"
          /\ UNCHANGED <<cerr, exit_status>>
     ELSE /\ cerr' = Append(cerr, "ErrException")
          /\ exit_status' = 1
          /\ pc' = "cli_exit"
  /\ ScopeEnd
  /\ UNCHANGED <<cliRest, outcome, file, outputs_done>>

\* the records with the ordinal of the beat before
BeatsFileLinesShifted(r) ==
  [k \in DOMAIN r.beats |->
     <<Fixed3(r.beats[k]), r.beat_counts[IF k = 1 THEN 1 ELSE k - 1]>>]

\* save_beats_to_file, lines 40-43: per beat the time with three decimals,
\* a tab and beat_counts[i]
BeatsFileLines(r) ==
  [k \in DOMAIN r.beats |-> <<Fixed3(r.beats[k]), r.beat_counts[k]>>]

\* lines 292-300 with save_beats_to_file, lines 33-46
CliSaveBeats ==
  /\ pc = "cli_beats"
  /\ \/ /\ "beats" \notin options
        /\ pc' = "cli_audio"
        /\ UNCHANGED <<cerr, exit_status, file, outputs_done>>
     \/ /\ "beats" \in options
        /\ file' = [exists |-> TRUE, old |-> FALSE,
                    lines |-> BeatsFileLines(result)]
        /\ outputs_done' = outputs_done \cup {"beats"}
        /\ pc' = "cli_audio"
        /\ UNCHANGED <<cerr, exit_status>>
     \/ /\ "beats" \in options
        /\ cerr' = cerr \o <<"ErrCouldNotOpen", "ErrFailedToSave">>
        /\ exit_status' = 1
        /\ pc' = "cli_exit"
        /\ UNCHANGED <<file, outputs_done>>
  /\ ScopeEnd
  /\ UNCHANGED <<cliRest, outcome>>

\* what generate_beats_audio and generate_mixed_audio do for the option:
\* refuse an empty beat list, else write the wav file or fail to
GenerateAudio(opt, errmsg, nextpc) ==
  \/ /\ opt \notin options
     /\ pc' = nextpc
     /\ exit_status' = IF nextpc = "cli_exit" THEN 0 ELSE exit_status
     /\ UNCHANGED <<cerr, outputs_done>>
  \/ /\ opt \in options
     /\ result.beats = <<>>
     /\ cerr' = cerr \o <<"ErrNoBeats", errmsg>>
     /\ exit_status' = 1
     /\ pc' = "cli_exit"
     /\ UNCHANGED outputs_done
  \/ /\ opt \in options
     /\ result.beats # <<>>
     /\ \/ /\ outputs_done' = outputs_done \cup {opt}
           /\ pc' = nextpc
           /\ exit_status' = IF nextpc = "cli_exit" THEN 0 ELSE exit_status
           /\ UNCHANGED cerr
        \/ /\ cerr' = cerr \o <<"ErrCouldNotOpenWav", errmsg>>
           /\ exit_status' = 1
           /\ pc' = "cli_exit"
           /\ UNCHANGED outputs_done

\* main going on to the mixed audio after a failed click track
CliGenerateBeatsAudioGoesOn ==
  /\ pc = "cli_audio"
  /\ \/ GenerateAudio("audio", "ErrFailedBeatAudio", "cli_mixed")
     \/ /\ "audio" \in options
        /\ cerr' = cerr \o <<"ErrCouldNotOpenWav", "ErrFailedBeatAudio">>
        /\ pc' = "cli_mixed"
        /\ UNCHANGED <<exit_status, outputs_done>>
  /\ ScopeEnd
  /\ UNCHANGED <<cliRest, outcome, file>>

\* lines 302-310
CliGenerateBeatsAudio ==
  /\ pc = "cli_audio"
  /\ GenerateAudio("audio", "ErrFailedBeatAudio", "cli_mixed")
  /\ ScopeEnd
  /\ UNCHANGED <<cliRest, outcome, file>>

\* lines 312-322, then return 0
CliGenerateMixedAudio ==
  /\ pc = "cli_mixed"
  /\ GenerateAudio("mixed", "ErrFailedMixedAudio", "cli_exit")
  /\ ScopeEnd
  /\ UNCHANGED <<cliRest, outcome, file>>

NextCli ==
  \/ CliCheckOptions
  \/ CliConstruct
  \/ CliLoad
  \/ PaConvertToMono
  \/ PaResample
  \/ PaSpectrogram
  \/ PaInference
  \/ PaPostprocess
  \/ CalcEntry
  \/ CalcCheck
  \/ CalcPickup
  \/ CalcLoop
  \/ CalcLoopExit
  \/ PaReturn
  \/ CliResult
  \/ CliSaveBeats
  \/ CliGenerateBeatsAudio
  \/ CliGenerateMixedAudio

SpecCli == InitCli /\ [][NextCli]_vars

\* ------------------------------------------------------ reading a .beats file
\* a number as the decimal digits that operator<< writes, and back as
\* operator>> reads them
RECURSIVE Digits(_)
Digits(n) == IF n < 10 THEN <<n>> ELSE Append(Digits(n \div 10), n % 10)

RECURSIVE FromDigits(_)
FromDigits(d) ==
  IF Len(d) = 0 THEN 0
  ELSE 10 * FromDigits(SubSeq(d, 1, Len(d) - 1)) + d[Len(d)]

\* a record of the file as text: the time in thousandths and the ordinal
LineText(rec) == [time |-> Digits(rec[1]), count |-> Digits(rec[2])]

\* iss >> time >> beat_number
Parses(text) == Len(text.time) > 0 /\ Len(text.count) > 0

ParseLine(text) == <<FromDigits(text.time), FromDigits(text.count)>>

\* read_beats_file: the records up to the first line that does not parse
RECURSIVE ReadLines(_, _)
ReadLines(lines, k) ==
  IF k > Len(lines) \/ ~Parses(LineText(lines[k])) THEN <<>>
  ELSE <<ParseLine(LineText(lines[k]))>> \o ReadLines(lines, k + 1)

read_beats_file(f) == IF f.exists THEN ReadLines(f.lines, 1) ELSE <<>>

\* the file that main wrote is read back
ReadBeatsFile ==
  /\ pc = "cli_exit"
  /\ "beats" \in outputs_done
  /\ ~read_back.done
  /\ read_back' = [done |-> TRUE, records |-> read_beats_file(file)]
  /\ UNCHANGED <<baseVars, outcome, pc, capiVars, monoVars, infVars, cliVars,
                 ownVars, resampled_buffer, c_resampled_buffer, soxr_calls,
                 soxr_delay>>

NextRoundTrip ==
  \/ NextCli
  \/ ReadBeatsFile

SpecRoundTrip == InitCli /\ [][NextRoundTrip]_vars

\* ------------------------------------------- mixing and resampling by value
SoxrDelays == {0, 1}

\* the mean of two mixed samples
Avg2(a, b) == [num |-> a.num * b.den + b.num * a.den, den |-> 2 * a.den * b.den]

\* the resampler as a pure function of its input: out_len =
\* in_len * out_rate / in_rate samples are asked for, odone = out_len less
\* the delay are delivered, each made from the input samples of its window
Soxr(buf, in_rate, delay) ==
  LET out_len == (Len(buf) * target_samplerate) \div in_rate
      step == in_rate \div target_samplerate
      odone == IF out_len > delay THEN out_len - delay ELSE 0
  IN [k \in 1..odone |-> Avg2(buf[(k - 1) * step + 1], buf[k * step])]

InitFrontEnd ==
  /\ audio_data \in AudioBuffers
  /\ channels \in 1..MaxChannels
  /\ num_samples = Len(audio_data)
  /\ samplerate \in {target_samplerate, 2 * target_samplerate}
  /\ soxr_delay \in SoxrDelays
  /\ mono_audio = <<>> /\ c_mono_audio = <<>>
  /\ resampled_buffer = <<>> /\ c_resampled_buffer = <<>>
  /\ soxr_calls = 0
  /\ read_back = NotRead
  /\ beats = <<>> /\ downbeats = <<>>
  /\ pc = "mix_cpp"
  /\ call = 0
  /\ beat_counts = <<>>
  /\ start_counter = 0 /\ counter = 0 /\ downbeat_idx = 0
  /\ next_downbeat = 0 /\ i = 0
  /\ cerr = <<>>
  /\ ret1 = <<>> /\ ret2 = <<>>
  /\ file = NoFile
  /\ saved = "pending"
  /\ mono_len = 0 /\ resampled_len = 0
  /\ outcome = "running" /\ result = NoResult
  /\ soxr_error = "none"
  /\ OwnIdle /\ CApiIdle /\ InfIdle /\ CliIdle

feRest == <<numVars, argVars, beats, downbeats, call, mono_len, resampled_len,
            capiVars, monoVars, infVars, cliVars, ownVars, read_back,
            soxr_delay>>

\* FeResampleCpp calling the resampler whatever the rate
FeResampleCppAlways ==
  /\ pc = "mix_done"
  /\ soxr_calls' = soxr_calls + 1
  /\ \/ /\ resampled_buffer' = Soxr(mono_audio, samplerate, soxr_delay)
        /\ pc' = "rs_c"
        /\ UNCHANGED <<outcome, soxr_error, cerr>>
     \/ /\ soxr_error' \in {"soxr_create failed", "soxr_process failed"}
        /\ cerr' = Append(cerr, soxr_error')
        /\ outcome' = "threw Processing error: Failed to resample audio"
        /\ pc' = "rs_failed"
        /\ UNCHANGED resampled_buffer
  /\ UNCHANGED <<feRest, c_resampled_buffer>>

\* process_audio lines 735-743 with resample_audio
FeResampleCpp ==
  /\ pc = "mix_done"
  /\ \/ /\ samplerate = target_samplerate
        /\ resampled_buffer' = mono_audio
        /\ pc' = "rs_c"
        /\ UNCHANGED <<outcome, soxr_error, cerr, soxr_calls>>
     \/ /\ samplerate # target_samplerate
        /\ soxr_calls' = soxr_calls + 1
        /\ \/ /\ resampled_buffer' = Soxr(mono_audio, samplerate, soxr_delay)
              /\ pc' = "rs_c"
              /\ UNCHANGED <<outcome, soxr_error, cerr>>
           \/ /\ soxr_error' \in {"soxr_create failed", "soxr_process failed"}
              /\ cerr' = Append(cerr, soxr_error')
              /\ outcome' = "threw Processing error: Failed to resample audio"
              /\ pc' = "rs_failed"
              /\ UNCHANGED resampled_buffer
  /\ UNCHANGED <<feRest, c_resampled_buffer>>

\* BeatThis_process_audio lines 128-137 with resample_audio_internal
FeResampleC ==
  /\ pc = "rs_c"
  /\ \/ /\ samplerate = target_samplerate
        /\ c_resampled_buffer' = c_mono_audio
        /\ pc' = "rs_done"
        /\ UNCHANGED <<outcome, soxr_error, cerr, soxr_calls>>
     \/ /\ samplerate # target_samplerate
        /\ soxr_calls' = soxr_calls + 1
        /\ \/ /\ c_resampled_buffer' = Soxr(c_mono_audio, samplerate, soxr_delay)
              /\ pc' = "rs_done"
              /\ UNCHANGED <<outcome, soxr_error, cerr>>
           \/ /\ soxr_error' \in {"soxr_create failed", "soxr_process failed"}
              /\ cerr' = Append(cerr, soxr_error')
              /\ outcome' = "returned after error"
              /\ pc' = "rs_failed"
              /\ UNCHANGED c_resampled_buffer
  /\ UNCHANGED <<feRest, resampled_buffer>>

NextFrontEnd ==
  \/ MixCpp
  \/ MixC
  \/ FeResampleCpp
  \/ FeResampleC

SpecFrontEnd == InitFrontEnd /\ [][NextFrontEnd]_vars

\* ================================================================ claims
\* the numbering's precondition, stated on the arguments
AllDownbeatsAreBeats ==
  \A k \in DOMAIN downbeats : \E b \in DOMAIN beats : beats[b] = downbeats[k]

\* i0, i1: index (0-based) of the first beat >= downbeats[1], downbeats[2]
BeatsBefore(t) == Cardinality({k \in DOMAIN beats : beats[k] < t})
I0 == BeatsBefore(downbeats[1])
I1 == BeatsBefore(downbeats[2])

Messages == {cerr[k] : k \in DOMAIN cerr}
FileOrdinals == [k \in 1..Len(file.lines) |-> file.lines[k][2]]
FirstCallReturned == call >= 2

\* C1: for ascending beats and at least two downbeats that are all beats,
\* with pickup_beats = i0 < beats_in_first_full_measure = i1 - i0, the
\* counter starts at (i1 - i0) - i0 and the last pickup beat gets ordinal
\* i1 - i0; the README's reference data yields [4, 1, 2, 3, 4, 1].
C1_PickupStart ==
  /\ (FirstCallReturned /\ AllDownbeatsAreBeats /\ Len(downbeats) >= 2
        /\ I0 < I1 - I0)
       => /\ start_counter = (I1 - I0) - I0
          /\ I0 > 0 => ret1[I0] = I1 - I0
          /\ ret1[I0 + 1] = 1
  /\ (FirstCallReturned /\ beats = ScenarioABeats
        /\ downbeats = ScenarioADownbeats)
       => ret1 = <<4, 1, 2, 3, 4, 1>>

C1_Witness ==
  /\ FirstCallReturned
  /\ beats = ScenarioABeats /\ downbeats = ScenarioADownbeats
  /\ start_counter = 3
  /\ ret1 = <<4, 1, 2, 3, 4, 1>>

\* C2: for every accepted input (all downbeats are beats, the empty
\* downbeat list included) the output has one ordinal per beat, every
\* ordinal is >= 1, and an ordinal is 1 exactly at the downbeats.
C2_OrdinalsWellFormed ==
  (FirstCallReturned /\ AllDownbeatsAreBeats)
    => /\ Len(ret1) = Len(beats)
       /\ \A k \in DOMAIN ret1 :
            /\ ret1[k] >= 1
            /\ ret1[k] = 1 <=> (\E d \in DOMAIN downbeats : downbeats[d] = beats[k])

\* C3: when some downbeat is not among the beats, process_audio (called with
\* a valid channel count and sample rate) fails and hands no BeatResult to
\* its caller.
C3_FatalOnMismatch ==
  (pc = "pa_done" /\ channels >= 1 /\ samplerate > 0 /\ ~AllDownbeatsAreBeats)
    => /\ outcome # "returned"
       /\ ~result.present

\* C4: the precondition check accepts a downbeat that lies within the
\* tolerance of some beat, and that beat then gets ordinal 1.
C4_CheckWithinEps ==
  (FirstCallReturned /\ beats # <<>> /\ downbeats # <<>>
     /\ \A d \in DOMAIN downbeats :
          \E b \in DOMAIN beats : Abs(beats[b] - downbeats[d]) < Eps)
    => /\ "ErrCannotCalculate" \notin Messages
       /\ \A b \in DOMAIN beats :
            (\E d \in DOMAIN downbeats : Abs(beats[b] - downbeats[d]) < Eps)
              => ret1[b] = 1

\* C5: with fewer than two downbeats and a non-empty beat list the numbering
\* starts its counter at 1 (the first beat gets 2, or 1 if it is the
\* downbeat), prints the warning and returns an ordinal >= 1 for every beat.
C5_FewDownbeats ==
  (FirstCallReturned /\ AllDownbeatsAreBeats /\ Len(downbeats) < 2
     /\ beats # <<>>)
    => /\ "WarnLessThanTwoDownbeats" \in Messages
       /\ "ErrCannotCalculate" \notin Messages
       /\ Len(ret1) = Len(beats)
       /\ \A k \in DOMAIN ret1 : ret1[k] >= 1
       /\ ret1[1] = IF downbeats # <<>> /\ downbeats[1] = beats[1] THEN 1 ELSE 2

\* C6: with exactly one downbeat that is a beat time, every beat's ordinal
\* is the previous ordinal plus 1 (2 for the first beat), except that the
\* beat equal to the downbeat gets 1.
C6_SingleDownbeat ==
  (FirstCallReturned /\ Len(downbeats) = 1 /\ AllDownbeatsAreBeats)
    => /\ Len(ret1) = Len(beats)
       /\ start_counter = 1
       /\ \A k \in DOMAIN beats :
            ret1[k] = IF beats[k] = downbeats[1] THEN 1
                      ELSE IF k = 1 THEN 2 ELSE ret1[k - 1] + 1

C6_Witness ==
  /\ FirstCallReturned /\ Len(downbeats) = 1 /\ AllDownbeatsAreBeats
  /\ \E k \in DOMAIN beats :
       /\ 1 < k /\ k < Len(beats)
       /\ beats[k] = downbeats[1]
       /\ ret1[k - 1] = k /\ ret1[k] = 1 /\ ret1[k + 1] = 2

\* C7: with at least two downbeats (all beats) and pickup_beats >=
\* beats_in_first_full_measure, both numbering paths start the counter at
\* 1, print the pickup warning without failing, and give every beat an
\* ordinal.
C7_PickupLonger ==
  LET case == /\ AllDownbeatsAreBeats /\ Len(downbeats) >= 2
              /\ I0 >= I1 - I0
  IN /\ (FirstCallReturned /\ case)
          => /\ start_counter = 1
             /\ "WarnPickupLonger" \in Messages
             /\ "ErrCannotCalculate" \notin Messages
             /\ Len(ret1) = Len(beats)
             /\ \A k \in DOMAIN ret1 : ret1[k] >= 1
             /\ \A k \in 1..I0 : ret1[k] = k + 1
     /\ (pc = "done" /\ saved = "true" /\ case)
          => /\ Len(file.lines) = Len(beats)
             /\ \A k \in 1..I0 : FileOrdinals[k] = k + 1
             /\ Len(SelectSeq(cerr, LAMBDA m : m = "WarnPickupLonger")) = 3

C7_Witness ==
  /\ pc = "done" /\ saved = "true"
  /\ AllDownbeatsAreBeats /\ Len(downbeats) >= 2
  /\ I0 >= 2 /\ I1 - I0 = 2
  /\ "WarnPickupLonger" \in Messages
  /\ ret1[1] = 2 /\ ret1[I0] = I0 + 1 /\ ret1[I0 + 1] = 1

\* C8: the numbering is pure: a second call on the same arguments returns
\* the same ordinals, and no step of a call changes the arguments.
C8_Pure ==
  [][/\ beats' = beats
     /\ downbeats' = downbeats
     /\ call' = 3 => ret2' = ret1']_vars

C8_Witness ==
  /\ call = 3 /\ ret2 = ret1
  /\ Len(ret1) >= 3
  /\ \E k \in DOMAIN ret1 : ret1[k] = 1
  /\ ret1[1] > 1

\* C9: the result-returning path and the file-writing path give every beat
\* the same ordinal, for every input.
C9_SameOrdinals ==
  (pc = "done" /\ "ErrCouldNotOpen" \notin Messages)
    => /\ saved = "true"
       /\ FileOrdinals = ret1

\* C10: an analyze call is all-or-nothing: it ends either with a complete
\* result (beats, downbeats, one ordinal >= 1 per beat, no downbeat without
\* a beat) or with no result data at all.
C10_AllOrNothing ==
  pc = "pa_done"
    => IF outcome = "returned"
       THEN /\ result.present
            /\ AllDownbeatsAreBeats
            /\ Len(result.beat_counts) = Len(result.beats)
            /\ \A k \in DOMAIN result.beat_counts : result.beat_counts[k] >= 1
       ELSE ~result.present

\* pc values at which a spectrogram, scoring, decoding, copying or
\* numbering stage is about to run
LaterStages ==
  {"pa_spectrogram", "pa_inference", "pa_postprocess",
   "calc_entry", "calc_check", "calc_pickup", "calc_loop", "calc_return",
   "c_spectrogram", "c_inference", "c_postprocess", "c_copy"}

\* C11: an analyze call given audio with fewer than 1 channel or a sample
\* rate of 0 or less fails with InvalidInput before any mixing, resampling
\* or scoring has happened.
C11_InvalidInputRejected ==
  (channels < 1 \/ samplerate <= 0)
    => \/ pc = "pa_mono"
       \/ /\ pc = "pa_done"
          /\ outcome = "threw InvalidInput"
          /\ mono_len = 0 /\ resampled_len = 0
          /\ soxr_error = "none"

ResampleFailed == soxr_error # "none"

\* BeatThis_process_audio has returned to the client
CallOver == {"c_returned", "c_freed", "c_client", "c_end"}

\* C12: when the resampling backend fails, the analyze call fails with a
\* resampling error that the caller can tell apart from a successful
\* analysis (an exception from BeatThis::process_audio, null arrays from
\* BeatThis_process_audio where a success has two arrays), and no
\* spectrogram, scoring or numbering stage runs afterwards.
C12_ResampleFailureIsAnError ==
  /\ ResampleFailed
       => /\ pc \notin LaterStages
          /\ beats = <<>> /\ downbeats = <<>> /\ beat_counts = <<>>
          /\ \/ /\ pc = "pa_done"
                /\ outcome = "threw Processing error: Failed to resample audio"
                /\ ~result.present
             \/ /\ pc \in CallOver
                /\ outcome = "returned after error"
                /\ c_result = EmptyCResult
                /\ soxr_error \in Messages
  /\ outcome = "returned"
       => /\ ~ResampleFailed
          /\ pc = "pa_done" => result.present
          /\ pc \in CallOver
               => c_result.beats # 0 /\ c_result.downbeats # 0

C12_Witness ==
  /\ soxr_error = "soxr_process failed"
  /\ pc = "c_freed" /\ call = 2
  /\ mono_len > 0

\* C20: every array BeatThis_process_audio allocated is released by the one
\* BeatThis_free_result call on its result and none is deleted twice, also
\* for the empty result of a null context or a failed call; BeatThis_cleanup
\* on a null context does nothing.
C20_HandleProtocol ==
  /\ [](/\ \A a \in DOMAIN heap : heap[a] \in {"live", "freed"}
        /\ pc = "c_returned"
             => \A a \in DOMAIN heap :
                  heap[a] = "live" <=> a \in {c_result.beats, c_result.downbeats}
        /\ pc \in {"c_freed", "c_client", "c_end"}
             => \A a \in DOMAIN heap : heap[a] = "freed")
  /\ [][(pc = "c_client" /\ pc' = "c_end" /\ context = "null")
          => /\ context' = "null"
             /\ UNCHANGED <<heap, c_result, cerr, outcome>>]_vars

C20_Witness ==
  /\ pc = "c_end" /\ context = "deleted"
  /\ Len(heap) = 3
  /\ \A a \in DOMAIN heap : heap[a] = "freed"
  /\ "ErrDuringProcessing" \in Messages

\* mono has one sample per complete frame, each the mean of the frame
MonoIsMean(mono) ==
  /\ Len(mono) = Len(audio_data) \div channels
  /\ \A k \in 1..Len(mono) :
       k * channels <= Len(audio_data)
         => mono[k].num * channels
              = FrameSum(audio_data, k, channels, channels) * mono[k].den

\* C13: for every channel count c >= 1 the mono mix has one sample per
\* complete frame, each the arithmetic mean of the frame's c samples, in
\* BeatThis::process_audio and in BeatThis_process_audio alike.
C13_MonoIsMean ==
  pc = "mix_done" => MonoIsMean(mono_audio) /\ MonoIsMean(c_mono_audio)

\* C18: for a feature matrix of any length T, also T above the chunk bound,
\* the orchestrator returns beat and downbeat logits of length exactly T,
\* one entry per feature frame.
C18_LogitsLengthT ==
  pc = "inf_done"
    => /\ Len(beat_logits) = Len(features)
       /\ Len(downbeat_logits) = Len(features)

C18_Witness ==
  /\ pc = "inf_done"
  /\ Len(features) > 2 * ChunkBound
  /\ Len(features) % ChunkBound # 0
  /\ Len(beat_logits) = Len(features)

\* C19: with chunks scored concurrently the stitched logits are the same
\* for every completion order: each chunk's output sits at its chunk index,
\* so frame t of the result is the score of frame t of the input.
C19_StitchedByChunkIndex ==
  pc = "inf_done"
    => /\ beat_logits = [t \in 1..Len(features) |-> BeatLogit(features[t])]
       /\ downbeat_logits
            = [t \in 1..Len(features) |-> DownbeatLogit(features[t])]

C19_Witness ==
  /\ pc = "inf_done"
  /\ Len(done_order) >= 3
  /\ done_order[1] > done_order[2]
  /\ features[1] # features[Len(features)]

Decoded ==
  pc \in {"calc_entry", "calc_check", "calc_pickup", "calc_loop",
          "calc_return", "pa_done"}

DownbeatCandidates == Times(PeakPick(Probs(downbeat_logits)))

StrictlyIncreasing(s) == \A k \in 1..(Len(s) - 1) : s[k] < s[k + 1]

\* C15: the decoded beat times are strictly increasing when the numbering
\* searches them and when they are returned in the result.
C15_BeatsStrictlyIncreasing ==
  /\ Decoded => StrictlyIncreasing(beats)
  /\ (pc = "pa_done" /\ outcome = "returned")
       => result.beats = beats /\ StrictlyIncreasing(result.beats)

C15_Witness ==
  /\ pc = "pa_done" /\ outcome = "returned"
  /\ Len(result.beats) >= 2
  /\ \E t \in 1..(Len(beat_logits) - 1) :
       beat_logits[t] = 2 /\ beat_logits[t + 1] = 2

\* C16: zero-length audio with valid parameters, when no backend fails,
\* makes the analyze call return normally with no beats, no downbeats and
\* no ordinals, and nothing is reported.
C16_ZeroLengthIsEmpty ==
  (/\ num_samples = 0 /\ channels >= 1 /\ samplerate > 0
   /\ pc = "pa_done"
   /\ soxr_error = "none" /\ outcome # "threw ONNX Runtime error")
    => /\ outcome = "returned"
       /\ result = [present |-> TRUE, beats |-> <<>>, downbeats |-> <<>>,
                    beat_counts |-> <<>>]
       /\ cerr = <<>>

C16_Witness ==
  /\ num_samples = 0 /\ channels = 2 /\ samplerate = 2 * target_samplerate
  /\ pc = "pa_done" /\ outcome = "returned"
  /\ result.present /\ result.beats = <<>>

IoErrors == {"ErrCouldNotOpen", "ErrCouldNotOpenWav", "ErrCouldNotOpenAudio"}

\* C17: a decode with no beats is a valid result: the numbering returns no
\* ordinals and reports nothing, process_audio returns normally, and the
\* CLI run over that result exits with status 0 whatever outputs were
\* requested (no file being unwritable).
C17_NoBeatsIsNotAnError ==
  /\ (beats = <<>> /\ pc = "calc_return")
       => beat_counts = <<>> /\ cerr = <<>>
  /\ (beats = <<>> /\ pc = "cli_beats")
       => outcome = "returned" /\ result.present /\ result.beat_counts = <<>>
  /\ (pc = "cli_exit" /\ outcome = "returned" /\ result.beats = <<>>
      /\ Messages \cap IoErrors = {})
       => exit_status = 0 /\ cerr = <<>>

InitMessages == {"ErrInitializing", "ErrInitializingOrt"}

\* C21: BeatThis_init returns a context on success and NULL on every
\* failure to load the model; no exception leaves the function, and after a
\* failure no context storage and no session is left behind.
C21_InitContextOrNull ==
  pc # "c_init"
    => /\ outcome \in {"idle", "running", "returned", "returned after error"}
       /\ \/ /\ context = "live"
             /\ ctx_mem = "allocated" /\ session = "loaded"
             /\ Messages \cap InitMessages = {}
          \/ /\ context = "deleted"
             /\ ctx_mem = "freed" /\ session = "released"
          \/ /\ context = "null"
             /\ ctx_mem \in {"none", "freed"} /\ session = "none"
             /\ Messages \cap InitMessages # {}

C21_Witness ==
  /\ pc = "c_end" /\ call = MaxCalls
  /\ context = "null" /\ ctx_mem = "freed"
  /\ "ErrInitializingOrt" \in Messages

\* C22: the analyzer object of main owns the session: it is never released
\* while main runs, and it is released exactly once when main returns, be
\* it with 0, with 1 after a failed load or output, or after an exception.
C22_SessionReleasedOnce ==
  /\ session # "released twice"
  /\ exit_status = Sentinel => session \in {"none", "loaded"}
  /\ exit_status # Sentinel => session \in {"none", "released"}
  /\ pc \notin {"cli_args", "cli_construct", "cli_exit"} => session = "loaded"
  /\ (pc = "cli_exit" /\ outcome # "idle") => session = "released"

C22_Witness ==
  /\ pc = "cli_exit" /\ exit_status = 1
  /\ outcome = "threw ONNX Runtime error"
  /\ session = "released"

\* C23: save_beats_to_file writes one record per beat, in beat order, each
\* the beat time with three decimals and that beat's ordinal; read_beats_file
\* on that file returns as many records with the same ordinals in the same
\* order.
C23_BeatsFileRoundTrip ==
  /\ "beats" \in outputs_done
       => /\ file.exists
          /\ Len(file.lines) = Len(result.beats)
          /\ \A k \in DOMAIN file.lines :
               /\ file.lines[k][1] = Fixed3(result.beats[k])
               /\ file.lines[k][2] = result.beat_counts[k]
  /\ read_back.done
       => /\ Len(read_back.records) = Len(result.beats)
          /\ \A k \in DOMAIN read_back.records :
               read_back.records[k][2] = result.beat_counts[k]

C23_Witness ==
  /\ read_back.done
  /\ Len(read_back.records) >= 2
  /\ read_back.records[1][2] = 1
  /\ read_back.records[2][2] = 2

\* the numbering takes one of its two warning branches
WarningCase ==
  \/ Len(downbeats) < 2
  \/ /\ Len(downbeats) >= 2 /\ I0 >= I1 - I0

FirstIsDownbeat ==
  downbeats # <<>> /\ Abs(beats[1] - downbeats[1]) < Eps

Ones(s) == Cardinality({k \in DOMAIN s : s[k] = 1})

\* C25: in the numbering pass over strictly increasing beats and strictly
\* increasing downbeats that are all beat times, the downbeat pointer only
\* moves forward, one beat per downbeat advances it, it has passed every
\* downbeat when the pass ends, and as many beats have ordinal 1 as there
\* are downbeats.
C25_DownbeatPointer ==
  /\ [](AllDownbeatsAreBeats
          => /\ pc = "calc_loop"
                  => /\ downbeat_idx <= Len(downbeats)
                     /\ Ones(beat_counts) = downbeat_idx
             /\ pc = "save_loop"
                  => /\ downbeat_idx <= Len(downbeats)
                     /\ Ones(FileOrdinals) = downbeat_idx
             /\ (pc = "calc_return" /\ downbeats # <<>>)
                  => downbeat_idx = Len(downbeats)
             /\ FirstCallReturned => Ones(ret1) = Len(downbeats)
             /\ (pc = "done" /\ saved = "true")
                  => /\ downbeat_idx = Len(downbeats)
                     /\ Ones(FileOrdinals) = Len(downbeats))
  /\ [][(pc \in {"calc_loop", "save_loop"} /\ pc' = pc)
          => downbeat_idx' \in {downbeat_idx, downbeat_idx + 1}]_vars

C25_Witness ==
  /\ pc = "done" /\ saved = "true"
  /\ Len(downbeats) = MaxDownbeats /\ downbeat_idx = MaxDownbeats
  /\ Len(beats) > Len(downbeats)
  /\ Ones(ret1) = MaxDownbeats

\* C26: calculate_beat_counts returns a vector as long as beats on every
\* return path, so every BeatResult of process_audio has one ordinal per
\* beat and the consumers, which index beat_counts by the beat index, stay
\* in bounds.
C26_OneCountPerBeat ==
  /\ pc = "calc_return" => Len(beat_counts) = Len(beats)
  /\ result.present
       => /\ Len(result.beat_counts) = Len(result.beats)
          /\ DOMAIN result.beats \subseteq DOMAIN result.beat_counts
  /\ pc \in {"cli_beats", "cli_audio", "cli_mixed"} => result.present

C26_Witness ==
  /\ pc = "cli_audio" /\ "audio" \in options
  /\ result.downbeats = <<>>
  /\ Len(result.beats) >= 2
  /\ Len(result.beat_counts) = Len(result.beats)

\* C27: when BeatThis_save_beats_to_file fails because a downbeat is not
\* among the beats, it returns false and the file at the output path is as
\* it was: no record written, no file created, an existing file not
\* truncated.
C27_FailedSaveKeepsFile ==
  (pc = "done" /\ "ErrCannotSave" \in Messages)
    => /\ saved = "false"
       /\ file \in {NoFile, OldFile}

\* C28: for the same samples, rate and channel count, BeatThis_process_audio
\* and BeatThis::process_audio hand the same mono, resampled audio to the
\* spectrogram stage (and so return the same beats and downbeats), for
\* every channel count >= 1.
C28_EntriesAgree ==
  pc = "rs_done"
    => /\ c_mono_audio = mono_audio
       /\ c_resampled_buffer = resampled_buffer

\* C30: at the target rate 22050 the mono samples reach the spectrogram
\* stage unchanged and the resampler is not called; at any other rate the
\* resampled length is at most floor(input_length * 22050 / source_rate).
C30_ResampleOnlyWhenNeeded ==
  /\ pc \in {"rs_c", "rs_done"}
       => IF samplerate = target_samplerate
          THEN resampled_buffer = mono_audio /\ soxr_calls = 0
          ELSE /\ Len(resampled_buffer) * samplerate
                    <= Len(mono_audio) * target_samplerate
               /\ soxr_calls >= 1
  /\ pc = "rs_done"
       => IF samplerate = target_samplerate
          THEN c_resampled_buffer = c_mono_audio
          ELSE Len(c_resampled_buffer) * samplerate
                 <= Len(c_mono_audio) * target_samplerate

C30_Witness ==
  /\ pc = "rs_done" /\ samplerate = target_samplerate
  /\ channels = 2 /\ Len(mono_audio) >= 1
  /\ mono_audio[1].num # 0
  /\ resampled_buffer = mono_audio /\ soxr_calls = 0

\* the place of an output option in main's fixed order
OutputRank(o) == CASE o = "beats" -> 1 [] o = "audio" -> 2 [] o = "mixed" -> 3

\* a step of main keeps the order of the outputs: an output is written
\* only after the analysis and in its place; a failing output ends the run
\* at once; nothing changes after main has returned
OutputStep ==
  /\ (outputs_done' # outputs_done)
       => (\E o \in options \ outputs_done :
            /\ outputs_done' = outputs_done \cup {o}
            /\ outcome = "returned"
            /\ exit_status = Sentinel
            /\ \A q \in options :
                 (OutputRank(q) < OutputRank(o)) => (q \in outputs_done)
            /\ \A q \in outputs_done : OutputRank(q) < OutputRank(o))
  /\ (pc \in {"cli_beats", "cli_audio", "cli_mixed"} /\ cerr' # cerr)
       => (/\ exit_status' = 1
           /\ pc' = "cli_exit"
           /\ outputs_done' = outputs_done
           /\ file' = file)
  /\ (exit_status # Sentinel)
       => (/\ exit_status' = exit_status
           /\ outputs_done' = outputs_done)

\* C29: main returns 0 exactly when process_audio returned a result and
\* every requested output was written; an output is written only after the
\* analysis, after every requested output before it in the order beats,
\* audio, mixed and before every later one; a failing output ends the run
\* with status 1 at once, and nothing is written after main has returned.
C29_ExitStatus ==
  /\ [](pc = "cli_exit"
          => (/\ exit_status \in {0, 1}
              /\ (exit_status = 0)
                   <=> (/\ outcome = "returned"
                        /\ options # {}
                        /\ outputs_done = options)))
  /\ [][OutputStep]_vars

C29_Witness ==
  /\ pc = "cli_exit" /\ exit_status = 1
  /\ outcome = "returned"
  /\ options = OutputOptions
  /\ outputs_done = {"beats"}
  /\ result.beats # <<>>

====
